---- MODULE Spec2Model ----
(***************************************************************************)
(* Model of rusoto-s3-mpu: multipart_upload (src/src/lib.rs:30-107) and    *)
(* dispatch_concurrent (src/src/lib.rs:109-161).                           *)
(*                                                                         *)
(* The remote client (begin / upload-part / complete / abort), the input   *)
(* byte stream and the readiness of every poll are the environment: each   *)
(* poll or call draws its outcome from the outcomes the callee can give.   *)
(* The splitter (mod split) is not part of the available source; it is     *)
(* modelled from its description in spec.md section 4.1.                   *)
(***************************************************************************)
EXTENDS Integers, Sequences, FiniteSets, TLC

\* ---------------------------------------------------------------- bounds
MaxBody  == 2      \* buffers delivered by the input stream
MaxChunk == 2      \* bytes in one input buffer
MaxBytes == 4      \* bytes in the whole input
MaxLimit == 2      \* largest concurrency limit tried
MaxPend  == 2      \* Pending outcomes the environment may give in one run

\* ---------------------------------------------------------------- values
None    == [some |-> FALSE, val |-> 0]
Some(n) == [some |-> TRUE,  val |-> n]

Limits     == {None} \cup {Some(n) : n \in 0..MaxLimit}
PartSizes  == {<<1, 1>>, <<1, 2>>, <<2, 2>>}
UploadIds  == {"u1", "u2"}
Outputs    == {"o1", "o2"}

\* an item of the input stream: Ok(buffer of len bytes) or Err(fault)
BodyItems  == [ok : {TRUE}, len : 0..MaxChunk] \cup [ok : {FALSE}, len : {0}]

RECURSIVE SeqsUpTo(_, _)
SeqsUpTo(S, n) ==
    IF n = 0 THEN {<<>>}
    ELSE LET shorter == SeqsUpTo(S, n - 1)
         IN  shorter \cup {Append(s, x) : s \in {t \in shorter : Len(t) = n - 1}, x \in S}

RECURSIVE TotalLen(_)
TotalLen(b) == IF b = <<>> THEN 0 ELSE b[1].len + TotalLen(Tail(b))

\* a fault ends the input: nothing is delivered after an Err item
Bodies == {b \in SeqsUpTo(BodyItems, MaxBody) :
              /\ \A j \in 1..Len(b) : ~b[j].ok => j = Len(b)
              /\ TotalLen(b) <= MaxBytes}

\* error values of type E, by origin (From<RusotoError<..>> conversions)
Err(src, part) == [src |-> src, part |-> part]
NoErr          == Err("none", 0)
BodyFault(n)   == Err("body", n)     \* the fault delivered as n-th item of the input
CreateError    == Err("CreateMultipartUpload", 0)
UploadError(n) == Err("UploadPart", n)
CompleteError  == Err("CompleteMultipartUpload", 0)
AbortError     == Err("AbortMultipartUpload", 0)

NoResult == [tag |-> "none", err |-> NoErr, out |-> "", parts |-> <<>>]
ROk(o)   == [tag |-> "Ok",   err |-> NoErr, out |-> o,  parts |-> <<>>]
RErr(e)  == [tag |-> "Err",  err |-> e,     out |-> "", parts |-> <<>>]
DOk(ps)  == [tag |-> "Ok",   err |-> NoErr, out |-> "", parts |-> ps]

VARIABLES
    \* inputs of multipart_upload
    body, bucket, key, part_size, concurrency_limit,
    \* multipart_upload
    pc,            \* position of the single flow of control
    upload_id,     \* output.upload_id of the begin call
    e,             \* the failure handed to or_else (line 96)
    result,        \* value returned by multipart_upload
    \* split::split(body, part_size)
    split,         \* accumulator, read position, next part number
    \* dispatch_concurrent
    done,          \* stream.is_done() of the fused task stream
    futures,       \* in-flight tasks
    outputs,       \* collected outputs
    is_pending, i,
    dc,            \* value returned by dispatch_concurrent
    \* what the environment has seen and answered
    beginReqs, uploadReqs, completeReqs, abortReqs,
    srcPolls, taskPolls, passPolls, pends, served, observed, abortOutcome,
    hist           \* what the polls of the current run have shown (see HistInit)

vars == <<body, bucket, key, part_size, concurrency_limit, pc, upload_id, e, result,
          split, done, futures, outputs, is_pending, i, dc,
          beginReqs, uploadReqs, completeReqs, abortReqs,
          srcPolls, taskPolls, passPolls, pends, served, observed, abortOutcome, hist>>

inputs == <<body, bucket, key, part_size, concurrency_limit>>
dcVars == <<split, done, futures, outputs, is_pending, i, dc>>
envVars == <<beginReqs, uploadReqs, completeReqs, abortReqs,
             srcPolls, taskPolls, passPolls, pends, served, observed, abortOutcome>>

\* ---------------------------------------------------------------- splitter
\* bytes are named by their offset in the whole input
Bytes(from, n) == [j \in 1..n |-> from + j - 1]

Take(s, n) == SubSeq(s, 1, n)
Drop(s, n) == SubSeq(s, n + 1, Len(s))

Part(n, bytes) == [part_number |-> n, body |-> bytes, content_length |-> Len(bytes)]
NoPart         == Part(0, <<>>)

SplitInit == [acc |-> <<>>, pos |-> 1, next |-> 1, read |-> 0, pulls |-> 0, fin |-> FALSE]

\* one poll of the part stream, when the next avail polls of the input
\* stream are ready (the one after them, if reached, is Pending)
SplitOut(st, kind, part, fault) == [st |-> st, kind |-> kind, part |-> part, fault |-> fault]

\* the bytes of the j-th buffer of input b: its offsets in the whole input
RECURSIVE Offset(_, _)
Offset(b, j) == IF j <= 1 THEN 0 ELSE Offset(b, j - 1) + b[j - 1].len

BufferBytes(b, j) == Bytes(Offset(b, j), b[j].len)

\* the whole accumulator emitted as one part, whatever its length
EmitMax_All(st, size) ==
    SplitOut([st EXCEPT !.acc = <<>>, !.next = @ + 1],
             "part", Part(st.next, st.acc), NoErr)

\* the first max bytes emitted, what follows them thrown away
EmitMax_DropRest(st, size) ==
    SplitOut([st EXCEPT !.acc = <<>>, !.next = @ + 1],
             "part", Part(st.next, Take(st.acc, size[2])), NoErr)

\* the accumulator has reached max: its first max bytes are emitted as the
\* next part, the remainder stays
EmitMax(st, size) ==
    SplitOut([st EXCEPT !.acc = Drop(@, size[2]), !.next = @ + 1],
             "part", Part(st.next, Take(st.acc, size[2])), NoErr)

RECURSIVE SplitPoll(_, _, _, _)
SplitPoll(st, b, size, avail) ==
    IF st.fin
        THEN SplitOut(st, "end", NoPart, NoErr)
    ELSE IF Len(st.acc) >= size[2]
        THEN EmitMax(st, size)
    ELSE IF avail = 0
        THEN SplitOut([st EXCEPT !.pulls = @ + 1], "pending", NoPart, NoErr)
    ELSE IF st.pos > Len(b)
        THEN IF st.acc # <<>> \/ st.next = 1
                THEN SplitOut([st EXCEPT !.acc = <<>>, !.next = @ + 1,
                                         !.pulls = @ + 1, !.fin = TRUE],
                              "part", Part(st.next, st.acc), NoErr)
                ELSE SplitOut([st EXCEPT !.pulls = @ + 1, !.fin = TRUE],
                              "end", NoPart, NoErr)
    ELSE IF ~b[st.pos].ok
        THEN SplitOut([st EXCEPT !.pos = @ + 1, !.pulls = @ + 1, !.fin = TRUE],
                      "err", NoPart, BodyFault(st.pos))
    ELSE SplitPoll([st EXCEPT !.acc   = @ \o BufferBytes(b, st.pos),
                              !.read  = @ + b[st.pos].len,
                              !.pos   = @ + 1,
                              !.pulls = @ + 1],
                   b, size, avail - 1)

\* ---------------------------------------------------------------- requests
UploadPartRequest(part) ==
    [bucket |-> bucket, key |-> key, upload_id |-> upload_id,
     part_number |-> part.part_number, content_length |-> part.content_length,
     body |-> part.body]

\* the e_tag the service answers for a stored part: a digest of its content
ETag(req) == <<"etag", req.body>>

CompletedPart(tag, n) == [e_tag |-> tag, part_number |-> n]

\* Vec::pop in place of swap_remove: the last element is dropped, whatever k
SwapRemove_Pop(v, k) == Take(v, Len(v) - 1)

\* Vec::swap_remove: the last element takes the place of the removed one
\* (k is the 0-based index)
SwapRemove(v, k) ==
    IF k + 1 = Len(v) THEN Take(v, Len(v) - 1)
    ELSE [Take(v, Len(v) - 1) EXCEPT ![k + 1] = v[Len(v)]]

\* line 80 left out: the outputs go to the complete call as collected
SortByPartNumber_None(v) == v

\* slice::sort_by_key(|p| p.part_number): stable, ascending
RECURSIVE Insert(_, _)
Insert(sorted, p) ==
    IF sorted = <<>> THEN <<p>>
    ELSE IF sorted[Len(sorted)].part_number <= p.part_number THEN Append(sorted, p)
    ELSE Append(Insert(Take(sorted, Len(sorted) - 1), p), sorted[Len(sorted)])

RECURSIVE SortByPartNumber(_)
SortByPartNumber(v) ==
    IF v = <<>> THEN <<>>
    ELSE Insert(SortByPartNumber(Take(v, Len(v) - 1)), v[Len(v)])

\* the part numbers of a vector of tasks, in its order
PartNumberSeq(v) == [k \in 1..Len(v) |-> v[k].part_number]

\* what the polls have shown:
\*   completeOutcome  the answer of the complete call ("none", "err" or its output)
\*   lastSrc          the answer of the latest poll of the task stream
\*   srcSinceOk       the task stream was polled after the latest task success
\*   filled           the in-flight tasks when the fill loop of the pass ended
\*   registered       a poll of this call of the poll_fn closure returned
\*                    Pending, and so holds the waker
HistInit == [completeOutcome |-> "none", lastSrc |-> "none", srcSinceOk |-> TRUE,
             filled |-> <<>>, registered |-> FALSE]

\* ---------------------------------------------------------------- Init
Init ==
    /\ body \in Bodies
    /\ bucket = "bucket"
    /\ key = "key"
    /\ part_size \in PartSizes
    /\ concurrency_limit \in Limits
    /\ pc = "start"
    /\ upload_id = ""
    /\ e = NoErr
    /\ result = NoResult
    /\ split = SplitInit
    /\ done = FALSE
    /\ futures = <<>>
    /\ outputs = <<>>
    /\ is_pending = FALSE
    /\ i = 0
    /\ dc = NoResult
    /\ beginReqs = <<>>
    /\ uploadReqs = <<>>
    /\ completeReqs = <<>>
    /\ abortReqs = <<>>
    /\ srcPolls = 0
    /\ taskPolls = 0
    /\ passPolls = <<>>
    /\ pends = 0
    /\ served = <<>>
    /\ observed = [from |-> "none", err |-> NoErr]
    /\ abortOutcome = "none"
    /\ hist = HistInit

\* ---------------------------------------------------------------- multipart_upload
\* lines 45-52: the begin call and the unwrap of its upload_id
BeginOk ==
    /\ pc = "start"
    /\ beginReqs' = Append(beginReqs, [bucket |-> bucket, key |-> key])
    /\ \E id \in UploadIds : upload_id' = id
    /\ pc' = "dispatch"
    /\ UNCHANGED hist
    /\ UNCHANGED <<inputs, e, result, dcVars, uploadReqs, completeReqs, abortReqs,
                   srcPolls, taskPolls, passPolls, pends, served, observed, abortOutcome>>

\* the begin call placed inside the block guarded by or_else
BeginErr_Abort ==
    /\ pc = "start"
    /\ beginReqs' = Append(beginReqs, [bucket |-> bucket, key |-> key])
    /\ observed' = [from |-> "begin", err |-> CreateError]
    /\ e' = CreateError
    /\ pc' = "abort"
    /\ UNCHANGED hist
    /\ UNCHANGED <<inputs, upload_id, result, dcVars, uploadReqs, completeReqs, abortReqs,
                   srcPolls, taskPolls, passPolls, pends, served, abortOutcome>>

\* line 51: `?` returns the failure of the begin call
BeginErr ==
    /\ pc = "start"
    /\ beginReqs' = Append(beginReqs, [bucket |-> bucket, key |-> key])
    /\ observed' = [from |-> "begin", err |-> CreateError]
    /\ result' = RErr(CreateError)
    /\ pc' = "done"
    /\ UNCHANGED hist
    /\ UNCHANGED <<inputs, upload_id, e, dcVars, uploadReqs, completeReqs, abortReqs,
                   srcPolls, taskPolls, passPolls, pends, served, abortOutcome>>

\* line 52: the begin call succeeded without an upload_id; unwrap panics
BeginNoId ==
    /\ pc = "start"
    /\ beginReqs' = Append(beginReqs, [bucket |-> bucket, key |-> key])
    /\ pc' = "panic"
    /\ UNCHANGED hist
    /\ UNCHANGED <<inputs, upload_id, e, result, dcVars, uploadReqs, completeReqs, abortReqs,
                   srcPolls, taskPolls, passPolls, pends, served, observed, abortOutcome>>

\* ---------------------------------------------------------------- dispatch_concurrent
\* the comparison of line 127 written as >=
HasCapacity_OffByOne(limit, v) == ~limit.some \/ limit.val >= Len(v)

\* line 127: limit.map_or(true, |limit| limit > futures.len())
HasCapacity(limit, v) == ~limit.some \/ limit.val > Len(v)

\* the assertion of lines 116-118 guarded by a cleanup that aborts the upload
DispatchEntry_AbortOnPanic ==
    /\ pc = "dispatch"
    /\ IF concurrency_limit.some /\ ~(concurrency_limit.val > 0)
          THEN /\ pc' = "panic"
               /\ abortReqs' = Append(abortReqs, [bucket |-> bucket, key |-> key,
                                                  upload_id |-> upload_id])
          ELSE /\ pc' = "head"
               /\ UNCHANGED abortReqs
    /\ done' = FALSE
    /\ futures' = <<>>
    /\ outputs' = <<>>
    /\ UNCHANGED hist
    /\ UNCHANGED <<inputs, upload_id, e, result, split, is_pending, i, dc,
                   beginReqs, uploadReqs, completeReqs,
                   srcPolls, taskPolls, passPolls, pends, served, observed, abortOutcome>>

\* lines 116-118 left out
DispatchEntry_NoAssert ==
    /\ pc = "dispatch"
    /\ pc' = "head"
    /\ done' = FALSE
    /\ futures' = <<>>
    /\ outputs' = <<>>
    /\ UNCHANGED hist
    /\ UNCHANGED <<inputs, upload_id, e, result, split, is_pending, i, dc, envVars>>

\* lines 114-122: the assertion on the limit, then the empty collections
DispatchEntry ==
    /\ pc = "dispatch"
    /\ IF concurrency_limit.some /\ ~(concurrency_limit.val > 0)
          THEN pc' = "panic"
          ELSE pc' = "head"
    /\ done' = FALSE
    /\ futures' = <<>>
    /\ outputs' = <<>>
    /\ UNCHANGED hist
    /\ UNCHANGED <<inputs, upload_id, e, result, split, is_pending, i, dc, envVars>>

\* the condition of line 125 written with &&
LoopCond_And(d, v) == ~d /\ v # <<>>

\* line 125: !stream.is_done() || !futures.is_empty()
LoopCond(d, v) == ~d \/ v # <<>>

\* lines 125-126: the loop condition holds, a pass begins
PassBegin ==
    /\ pc = "head"
    /\ LoopCond(done, futures)
    /\ is_pending' = FALSE
    /\ passPolls' = <<>>
    /\ pc' = "fill"
    /\ UNCHANGED hist
    /\ UNCHANGED <<inputs, upload_id, e, result, split, done, futures, outputs, i, dc,
                   beginReqs, uploadReqs, completeReqs, abortReqs,
                   srcPolls, taskPolls, pends, served, observed, abortOutcome>>

\* lines 125, 156-160: the loop condition fails, Ok(outputs) is returned
DispatchOk ==
    /\ pc = "head"
    /\ ~LoopCond(done, futures)
    /\ dc' = DOk(outputs)
    /\ pc' = "complete"
    /\ UNCHANGED hist
    /\ UNCHANGED <<inputs, upload_id, e, result, split, done, futures, outputs,
                   is_pending, i, envVars>>

\* the avail values one poll of the part stream can meet
Avail == 0..(MaxBody + 1)

\* line 129 followed by a break: one task taken per pass
FillTask_Break ==
    /\ pc = "fill"
    /\ HasCapacity(concurrency_limit, futures)
    /\ ~done
    /\ \E avail \in Avail :
         LET r == SplitPoll(split, body, part_size, avail) IN
         /\ r.kind = "part"
         /\ split' = r.st
         /\ futures' = Append(futures, UploadPartRequest(r.part))
         /\ uploadReqs' = Append(uploadReqs, UploadPartRequest(r.part))
    /\ srcPolls' = srcPolls + 1
    /\ i' = 0
    /\ pc' = "drain"
    /\ hist' = [hist EXCEPT !.lastSrc = "task", !.srcSinceOk = TRUE,
                            !.filled = PartNumberSeq(futures')]
    /\ UNCHANGED <<inputs, upload_id, e, result, done, outputs, is_pending, dc,
                   beginReqs, completeReqs, abortReqs,
                   taskPolls, passPolls, pends, served, observed, abortOutcome>>

\* lines 128-129: the source yields a task, which joins the in-flight set
FillTask ==
    /\ pc = "fill"
    /\ HasCapacity(concurrency_limit, futures)
    /\ ~done
    /\ \E avail \in Avail :
         LET r == SplitPoll(split, body, part_size, avail) IN
         /\ r.kind = "part"
         /\ split' = r.st
         /\ futures' = Append(futures, UploadPartRequest(r.part))
         /\ uploadReqs' = Append(uploadReqs, UploadPartRequest(r.part))
    /\ srcPolls' = srcPolls + 1
    /\ hist' = [hist EXCEPT !.lastSrc = "task", !.srcSinceOk = TRUE]
    /\ UNCHANGED <<inputs, pc, upload_id, e, result, done, outputs, is_pending, i, dc,
                   beginReqs, completeReqs, abortReqs,
                   taskPolls, passPolls, pends, served, observed, abortOutcome>>

\* line 130 written as a break: the fault is seen, the pass goes on
FillFault_Break ==
    /\ pc = "fill"
    /\ HasCapacity(concurrency_limit, futures)
    /\ ~done
    /\ \E avail \in Avail :
         LET r == SplitPoll(split, body, part_size, avail) IN
         /\ r.kind = "err"
         /\ split' = r.st
         /\ observed' = [from |-> "source", err |-> r.fault]
    /\ srcPolls' = srcPolls + 1
    /\ done' = TRUE
    /\ i' = 0
    /\ pc' = "drain"
    /\ hist' = [hist EXCEPT !.lastSrc = "err", !.srcSinceOk = TRUE,
                            !.filled = PartNumberSeq(futures)]
    /\ UNCHANGED <<inputs, upload_id, e, result, futures, outputs, is_pending, dc,
                   beginReqs, uploadReqs, completeReqs, abortReqs,
                   taskPolls, passPolls, pends, served, abortOutcome>>

\* line 130: the source reports a fault, which is returned
FillFault ==
    /\ pc = "fill"
    /\ HasCapacity(concurrency_limit, futures)
    /\ ~done
    /\ \E avail \in Avail :
         LET r == SplitPoll(split, body, part_size, avail) IN
         /\ r.kind = "err"
         /\ split' = r.st
         /\ observed' = [from |-> "source", err |-> r.fault]
         /\ dc' = RErr(r.fault)
         /\ e' = r.fault
    /\ srcPolls' = srcPolls + 1
    /\ pc' = "abort"
    /\ hist' = [hist EXCEPT !.lastSrc = "err", !.srcSinceOk = TRUE]
    /\ UNCHANGED <<inputs, upload_id, result, done, futures, outputs, is_pending, i,
                   beginReqs, uploadReqs, completeReqs, abortReqs,
                   taskPolls, passPolls, pends, served, abortOutcome>>

\* line 131: the source is exhausted (the fused stream answers None by
\* itself once it is done)
FillEnd ==
    /\ pc = "fill"
    /\ HasCapacity(concurrency_limit, futures)
    /\ IF done
          THEN UNCHANGED split
          ELSE \E avail \in Avail :
                 LET r == SplitPoll(split, body, part_size, avail) IN
                 /\ r.kind = "end"
                 /\ split' = r.st
    /\ srcPolls' = srcPolls + 1
    /\ done' = TRUE
    /\ i' = 0
    /\ pc' = "drain"
    /\ hist' = [hist EXCEPT !.lastSrc = "end", !.srcSinceOk = TRUE,
                            !.filled = PartNumberSeq(futures)]
    /\ UNCHANGED <<inputs, upload_id, e, result, futures, outputs, is_pending, dc,
                   beginReqs, uploadReqs, completeReqs, abortReqs,
                   taskPolls, passPolls, pends, served, observed, abortOutcome>>

\* lines 132-135: the source is not ready
FillPending ==
    /\ pc = "fill"
    /\ HasCapacity(concurrency_limit, futures)
    /\ ~done
    /\ pends < MaxPend
    /\ \E avail \in Avail :
         LET r == SplitPoll(split, body, part_size, avail) IN
         /\ r.kind = "pending"
         /\ split' = r.st
    /\ srcPolls' = srcPolls + 1
    /\ pends' = pends + 1
    /\ is_pending' = TRUE
    /\ i' = 0
    /\ pc' = "drain"
    /\ hist' = [hist EXCEPT !.lastSrc = "pending", !.srcSinceOk = TRUE,
                            !.filled = PartNumberSeq(futures), !.registered = TRUE]
    /\ UNCHANGED <<inputs, upload_id, e, result, done, futures, outputs, dc,
                   beginReqs, uploadReqs, completeReqs, abortReqs,
                   taskPolls, passPolls, served, observed, abortOutcome>>

\* line 127: no capacity left, the source is not asked
FillFull ==
    /\ pc = "fill"
    /\ ~HasCapacity(concurrency_limit, futures)
    /\ i' = 0
    /\ pc' = "drain"
    /\ hist' = [hist EXCEPT !.filled = PartNumberSeq(futures)]
    /\ UNCHANGED <<inputs, upload_id, e, result, split, done, futures, outputs,
                   is_pending, dc, envVars>>

\* lines 142-143 followed by i += 1, as in the Pending arm
DrainOk_Advance ==
    /\ pc = "drain"
    /\ i < Len(futures)
    /\ LET tag == ETag(futures[i + 1]) IN
         /\ outputs' = Append(outputs, CompletedPart(tag, futures[i + 1].part_number))
         /\ served' = Append(served, <<futures[i + 1].part_number, tag>>)
    /\ futures' = SwapRemove(futures, i)
    /\ i' = i + 1
    /\ taskPolls' = taskPolls + 1
    /\ passPolls' = Append(passPolls, futures[i + 1].part_number)
    /\ hist' = [hist EXCEPT !.srcSinceOk = FALSE]
    /\ UNCHANGED <<inputs, pc, upload_id, e, result, split, done, is_pending, dc,
                   beginReqs, uploadReqs, completeReqs, abortReqs,
                   srcPolls, pends, observed, abortOutcome>>

\* lines 140-144: futures[i] succeeds; it is removed and its output kept
DrainOk ==
    /\ pc = "drain"
    /\ i < Len(futures)
    /\ LET tag == ETag(futures[i + 1]) IN
         /\ outputs' = Append(outputs, CompletedPart(tag, futures[i + 1].part_number))
         /\ served' = Append(served, <<futures[i + 1].part_number, tag>>)
    /\ futures' = SwapRemove(futures, i)
    /\ taskPolls' = taskPolls + 1
    /\ passPolls' = Append(passPolls, futures[i + 1].part_number)
    /\ hist' = [hist EXCEPT !.srcSinceOk = FALSE]
    /\ UNCHANGED <<inputs, pc, upload_id, e, result, split, done, is_pending, i, dc,
                   beginReqs, uploadReqs, completeReqs, abortReqs,
                   srcPolls, pends, observed, abortOutcome>>

\* line 145 replaced by a retry: the failed part is uploaded again
DrainErr_Retry ==
    /\ pc = "drain"
    /\ i < Len(futures)
    /\ taskPolls' = taskPolls + 1
    /\ passPolls' = Append(passPolls, futures[i + 1].part_number)
    /\ uploadReqs' = Append(uploadReqs, futures[i + 1])
    /\ is_pending' = TRUE
    /\ i' = i + 1
    /\ UNCHANGED hist
    /\ UNCHANGED <<inputs, pc, upload_id, e, result, split, done, futures, outputs, dc,
                   beginReqs, completeReqs, abortReqs,
                   srcPolls, pends, served, observed, abortOutcome>>

\* line 145 replaced by an abort call made from inside the pass, which goes on
DrainErr_AbortInside ==
    /\ pc = "drain"
    /\ i < Len(futures)
    /\ taskPolls' = taskPolls + 1
    /\ passPolls' = Append(passPolls, futures[i + 1].part_number)
    /\ observed' = [from |-> "task", err |-> UploadError(futures[i + 1].part_number)]
    /\ abortReqs' = Append(abortReqs, [bucket |-> bucket, key |-> key, upload_id |-> upload_id])
    /\ e' = UploadError(futures[i + 1].part_number)
    /\ i' = i + 1
    /\ UNCHANGED hist
    /\ UNCHANGED <<inputs, pc, upload_id, result, split, done, futures, outputs, is_pending, dc,
                   beginReqs, uploadReqs, completeReqs,
                   srcPolls, pends, served, abortOutcome>>

\* line 145 without the return: the failure is seen, the pass goes on
DrainErr_Continue ==
    /\ pc = "drain"
    /\ i < Len(futures)
    /\ taskPolls' = taskPolls + 1
    /\ passPolls' = Append(passPolls, futures[i + 1].part_number)
    /\ observed' = [from |-> "task", err |-> UploadError(futures[i + 1].part_number)]
    /\ futures' = SwapRemove(futures, i)
    /\ UNCHANGED hist
    /\ UNCHANGED <<inputs, pc, upload_id, e, result, split, done, outputs, is_pending, i, dc,
                   beginReqs, uploadReqs, completeReqs, abortReqs,
                   srcPolls, pends, served, abortOutcome>>

\* line 145: futures[i] fails; the failure is returned
DrainErr ==
    /\ pc = "drain"
    /\ i < Len(futures)
    /\ taskPolls' = taskPolls + 1
    /\ passPolls' = Append(passPolls, futures[i + 1].part_number)
    /\ observed' = [from |-> "task", err |-> UploadError(futures[i + 1].part_number)]
    /\ dc' = RErr(UploadError(futures[i + 1].part_number))
    /\ e' = UploadError(futures[i + 1].part_number)
    /\ pc' = "abort"
    /\ UNCHANGED hist
    /\ UNCHANGED <<inputs, upload_id, result, split, done, futures, outputs, is_pending, i,
                   beginReqs, uploadReqs, completeReqs, abortReqs,
                   srcPolls, pends, served, abortOutcome>>

\* lines 146-149: futures[i] is not ready
DrainPending ==
    /\ pc = "drain"
    /\ i < Len(futures)
    /\ pends < MaxPend
    /\ pends' = pends + 1
    /\ taskPolls' = taskPolls + 1
    /\ passPolls' = Append(passPolls, futures[i + 1].part_number)
    /\ is_pending' = TRUE
    /\ i' = i + 1
    /\ hist' = [hist EXCEPT !.registered = TRUE]
    /\ UNCHANGED <<inputs, pc, upload_id, e, result, split, done, futures, outputs, dc,
                   beginReqs, uploadReqs, completeReqs, abortReqs,
                   srcPolls, served, observed, abortOutcome>>

\* line 139: every in-flight task has been polled
DrainEnd ==
    /\ pc = "drain"
    /\ ~(i < Len(futures))
    /\ pc' = "tail"
    /\ UNCHANGED hist
    /\ UNCHANGED <<inputs, upload_id, e, result, dcVars, envVars>>

\* line 152 without its condition: every pass ends the poll with Pending
Suspend_Always ==
    /\ pc = "tail"
    /\ pc' = "suspended"
    /\ UNCHANGED hist
    /\ UNCHANGED <<inputs, upload_id, e, result, dcVars, envVars>>

\* lines 152-154: something was pending, the poll returns Pending
Suspend ==
    /\ pc = "tail"
    /\ is_pending
    /\ pc' = "suspended"
    /\ UNCHANGED hist
    /\ UNCHANGED <<inputs, upload_id, e, result, dcVars, envVars>>

\* lines 152-155: nothing was pending, the loop goes round
Repeat ==
    /\ pc = "tail"
    /\ ~is_pending
    /\ pc' = "head"
    /\ UNCHANGED hist
    /\ UNCHANGED <<inputs, upload_id, e, result, dcVars, envVars>>

\* the waker registered by a pending poll fires; poll_fn is polled again
\* (a suspended task nobody holds the waker of is never polled again)
Wake ==
    /\ pc = "suspended"
    /\ hist.registered
    /\ pc' = "head"
    /\ hist' = [hist EXCEPT !.registered = FALSE]
    /\ UNCHANGED <<inputs, upload_id, e, result, dcVars, envVars>>

\* ---------------------------------------------------------------- multipart_upload, end
CompleteRequest(parts) ==
    [bucket |-> bucket, key |-> key, upload_id |-> upload_id, parts |-> parts]

AbortRequest == [bucket |-> bucket, key |-> key, upload_id |-> upload_id]

\* the abort call chained with then instead of or_else: issued on success too
CompleteOk_Abort ==
    /\ pc = "complete"
    /\ completeReqs' = Append(completeReqs, CompleteRequest(SortByPartNumber(dc.parts)))
    /\ abortReqs' = Append(abortReqs, AbortRequest)
    /\ \E o \in Outputs :
         /\ result' = ROk(o)
         /\ hist' = [hist EXCEPT !.completeOutcome = o]
    /\ pc' = "done"
    /\ UNCHANGED <<inputs, upload_id, e, dcVars, beginReqs, uploadReqs,
                   srcPolls, taskPolls, passPolls, pends, served, observed, abortOutcome>>

\* lines 80-94: sort, the complete call, its output returned
CompleteOk ==
    /\ pc = "complete"
    /\ completeReqs' = Append(completeReqs, CompleteRequest(SortByPartNumber(dc.parts)))
    /\ \E o \in Outputs :
         /\ result' = ROk(o)
         /\ hist' = [hist EXCEPT !.completeOutcome = o]
    /\ pc' = "done"
    /\ UNCHANGED <<inputs, upload_id, e, dcVars, beginReqs, uploadReqs, abortReqs,
                   srcPolls, taskPolls, passPolls, pends, served, observed, abortOutcome>>

\* the complete call placed after the block guarded by or_else
CompleteErr_NoAbort ==
    /\ pc = "complete"
    /\ completeReqs' = Append(completeReqs, CompleteRequest(SortByPartNumber(dc.parts)))
    /\ observed' = [from |-> "complete", err |-> CompleteError]
    /\ e' = CompleteError
    /\ result' = RErr(CompleteError)
    /\ pc' = "done"
    /\ hist' = [hist EXCEPT !.completeOutcome = "err"]
    /\ UNCHANGED <<inputs, upload_id, dcVars, beginReqs, uploadReqs, abortReqs,
                   srcPolls, taskPolls, passPolls, pends, served, abortOutcome>>

\* lines 80-92: sort, the complete call, its failure handed to or_else
CompleteErr ==
    /\ pc = "complete"
    /\ completeReqs' = Append(completeReqs, CompleteRequest(SortByPartNumber(dc.parts)))
    /\ observed' = [from |-> "complete", err |-> CompleteError]
    /\ e' = CompleteError
    /\ pc' = "abort"
    /\ hist' = [hist EXCEPT !.completeOutcome = "err"]
    /\ UNCHANGED <<inputs, upload_id, result, dcVars, beginReqs, uploadReqs, abortReqs,
                   srcPolls, taskPolls, passPolls, pends, served, abortOutcome>>

\* line 104 written so that a failing abort call returns its own error
Abort_Surface ==
    /\ pc = "abort"
    /\ abortReqs' = Append(abortReqs, AbortRequest)
    /\ \E outcome \in {"ok", "err"} :
         /\ abortOutcome' = outcome
         /\ result' = IF outcome = "err" THEN RErr(AbortError) ELSE RErr(e)
    /\ pc' = "done"
    /\ UNCHANGED hist
    /\ UNCHANGED <<inputs, upload_id, e, dcVars, beginReqs, uploadReqs, completeReqs,
                   srcPolls, taskPolls, passPolls, pends, served, observed>>

\* lines 96-106: the abort call; whatever it answers, Err(e) is returned
Abort ==
    /\ pc = "abort"
    /\ abortReqs' = Append(abortReqs, AbortRequest)
    /\ \E outcome \in {"ok", "err"} : abortOutcome' = outcome
    /\ result' = RErr(e)
    /\ pc' = "done"
    /\ UNCHANGED hist
    /\ UNCHANGED <<inputs, upload_id, e, dcVars, beginReqs, uploadReqs, completeReqs,
                   srcPolls, taskPolls, passPolls, pends, served, observed>>

Next ==
    \/ BeginOk \/ BeginErr \/ BeginNoId
    \/ DispatchEntry
    \/ PassBegin \/ DispatchOk
    \/ FillTask \/ FillFault \/ FillEnd \/ FillPending \/ FillFull
    \/ DrainOk \/ DrainErr \/ DrainPending \/ DrainEnd
    \/ Suspend \/ Repeat \/ Wake
    \/ CompleteOk \/ CompleteErr \/ Abort

Spec == Init /\ [][Next]_vars

\* ---------------------------------------------------------------- properties
BeginSucceeded == upload_id # ""

\* the part numbers of a sequence of requests or completed parts
PartNumbers(v) == {v[k].part_number : k \in 1..Len(v)}

\* no poll of the source, no poll of a task, no new task, no pull of the input
NoDispatchStep ==
    /\ srcPolls' = srcPolls
    /\ taskPolls' = taskPolls
    /\ uploadReqs' = uploadReqs
    /\ split' = split

\* C1: with a limit k >= 1, the in-flight set never holds more than k tasks
C1_InFlightBounded ==
    (concurrency_limit.some /\ concurrency_limit.val >= 1)
        => Len(futures) <= concurrency_limit.val

C1_Witness ==
    /\ concurrency_limit = Some(2)
    /\ Len(futures) = 2
    /\ pc = "fill"
    /\ ~done

\* C2: when the poll of an in-flight task returns a failure, dispatch_concurrent
\* returns exactly that failure, and from then on the source is not polled and
\* no task is polled
C2_TaskFailureReturned ==
    [][ /\ observed'.from = "task" => dc' = RErr(observed'.err)
        /\ observed.from = "task" => NoDispatchStep ]_vars

C2_Witness ==
    /\ observed.from = "task"
    /\ dc = RErr(observed.err)
    /\ Len(futures) >= 2
    /\ i = 0
    /\ ~done
    /\ pc = "done"

\* C3: when the input stream, an upload-part call or the complete call has
\* failed after a successful begin, multipart_upload returns only after exactly
\* one abort call, made with the bucket, the key and the upload_id of begin;
\* abort is never called twice
C3_AbortOnFailure ==
    /\ Len(abortReqs) <= 1
    /\ (pc = "done" /\ BeginSucceeded /\ observed.from \in {"source", "task", "complete"})
          => abortReqs = <<[bucket |-> bucket, key |-> key, upload_id |-> upload_id]>>

C3_Witness ==
    /\ pc = "done"
    /\ observed.from = "complete"
    /\ Len(abortReqs) = 1
    /\ abortReqs[1].upload_id \in UploadIds

\* C4: when multipart_upload fails after a successful begin, it returns the
\* failure that triggered the abort, whether the abort call succeeded or failed
C4_OriginalFailureReturned ==
    (pc = "done" /\ BeginSucceeded /\ result.tag = "Err")
        => /\ observed.from \in {"source", "task", "complete"}
           /\ result = RErr(observed.err)
           /\ abortOutcome \in {"ok", "err"}

C4_Witness ==
    /\ pc = "done"
    /\ BeginSucceeded
    /\ abortOutcome = "err"
    /\ result = RErr(observed.err)
    /\ observed.from = "task"

\* C5: when the begin call fails, multipart_upload returns that failure, makes
\* no upload-part, complete or abort call and never pulls from the input
C5_BeginFailure ==
    observed.from = "begin"
        => /\ pc = "done"
           /\ result = RErr(CreateError)
           /\ uploadReqs = <<>>
           /\ completeReqs = <<>>
           /\ abortReqs = <<>>
           /\ srcPolls = 0
           /\ split = SplitInit

C5_Witness ==
    /\ observed.from = "begin"
    /\ pc = "done"
    /\ Len(beginReqs) = 1
    /\ Len(body) > 0

\* C6: the complete call is made at most once, only when the input is
\* exhausted and the upload of every part emitted has returned success; it is
\* never made when the input stream or an upload-part call has failed
C6_CompleteOnlyAfterAll ==
    /\ Len(completeReqs) <= 1
    /\ completeReqs # <<>>
          => /\ split.fin
             /\ split.pos > Len(body)
             /\ split.acc = <<>>
             /\ Len(uploadReqs) = split.next - 1
             /\ \A r \in 1..Len(uploadReqs) :
                   \E k \in 1..Len(served) : served[k][1] = uploadReqs[r].part_number
    /\ observed.from \in {"source", "task"} => completeReqs = <<>>

C6_Witness ==
    /\ Len(completeReqs) = 1
    /\ Len(uploadReqs) >= 2
    /\ Len(body) = 2

\* C7: the part list of a complete call is strictly ascending by part_number,
\* holds exactly the part numbers 1..n of the n parts emitted, and pairs each
\* with the tag its upload returned, whatever the order of completion
C7_CompleteListOrdered ==
    \A c \in 1..Len(completeReqs) :
        LET parts == completeReqs[c].parts IN
        /\ Len(parts) = split.next - 1
        /\ Len(parts) = Len(uploadReqs)
        /\ \A k \in 1..Len(parts) :
              /\ parts[k].part_number = k
              /\ \E j \in 1..Len(served) : served[j] = <<k, parts[k].e_tag>>
              /\ \A j \in 1..Len(served) : served[j][1] = k => served[j][2] = parts[k].e_tag

C7_Witness ==
    /\ Len(completeReqs) = 1
    /\ Len(dc.parts) >= 3
    /\ dc.parts[1].part_number = 3
    /\ dc.parts[1].e_tag # dc.parts[2].e_tag

\* C8: dispatch_concurrent returns success only when the source is exhausted
\* and no task is in flight, with exactly one output for each task the source
\* yielded, in the order in which the completions were observed; it fails only
\* when the source or a task has failed
C8_DispatchSuccess ==
    /\ dc.tag = "Ok"
          => /\ done
             /\ split.fin
             /\ futures = <<>>
             /\ Len(dc.parts) = Len(uploadReqs)
             /\ \A r \in 1..Len(uploadReqs) :
                   Cardinality({k \in 1..Len(dc.parts) :
                       dc.parts[k].part_number = uploadReqs[r].part_number}) = 1
             /\ Len(dc.parts) = Len(served)
             /\ \A k \in 1..Len(served) :
                   dc.parts[k] = CompletedPart(served[k][2], served[k][1])
    /\ dc.tag = "Err" => observed.from \in {"source", "task"}

C8_Witness ==
    /\ dc.tag = "Ok"
    /\ Len(dc.parts) >= 2
    /\ dc.parts[1].part_number = 2
    /\ observed.from = "none"

\* C9: when a poll of the task source returns a fault, dispatch_concurrent
\* returns exactly that fault and no collected output, and from then on no
\* task is polled and the source is not polled
C9_SourceFaultReturned ==
    [][ /\ observed'.from = "source" => dc' = RErr(observed'.err)
        /\ observed.from = "source" => NoDispatchStep ]_vars

C9_Witness ==
    /\ observed.from = "source"
    /\ dc = RErr(BodyFault(2))
    /\ futures # <<>>
    /\ outputs # <<>>
    /\ pc = "done"

\* C10: with limit Some(0) dispatch_concurrent panics: it returns nothing,
\* the source is never polled and no task is started
C10_ZeroLimitPanics ==
    concurrency_limit = Some(0)
        => /\ srcPolls = 0
           /\ taskPolls = 0
           /\ uploadReqs = <<>>
           /\ split = SplitInit
           /\ dc = NoResult
           /\ (BeginSucceeded /\ pc # "dispatch") => pc = "panic"

C10_Witness ==
    /\ concurrency_limit = Some(0)
    /\ BeginSucceeded
    /\ pc = "panic"
    /\ Len(body) > 0

\* C11: when the complete call succeeds, multipart_upload returns the output
\* of that call and no abort call is made
C11_CompleteOutputReturned ==
    hist.completeOutcome \in Outputs
        => /\ pc = "done"
           /\ result = ROk(hist.completeOutcome)
           /\ abortReqs = <<>>

C11_Witness ==
    /\ hist.completeOutcome = "o2"
    /\ result.tag = "Ok"
    /\ Len(uploadReqs) >= 2
    /\ pc = "done"

\* C12: with no limit, when dispatch_concurrent suspends, the latest poll of
\* the source answered pending or exhausted, every task the source has
\* yielded has been taken, and every task in flight was polled in the pass
C12_NoLimitTakesAll ==
    (pc = "suspended" /\ ~concurrency_limit.some)
        => /\ hist.lastSrc \in {"pending", "end"}
           /\ \A k \in 1..Len(futures) :
                 \E j \in 1..Len(passPolls) : passPolls[j] = futures[k].part_number
           /\ \A r \in 1..Len(uploadReqs) :
                 \/ \E k \in 1..Len(futures) : futures[k] = uploadReqs[r]
                 \/ \E k \in 1..Len(served) : served[k][1] = uploadReqs[r].part_number

C12_Witness ==
    /\ pc = "suspended"
    /\ concurrency_limit = None
    /\ hist.lastSrc = "pending"
    /\ Len(hist.filled) >= 2
    /\ futures # <<>>

\* ---------------------------------------------------------------- splitter properties
RECURSIVE ConcatBodies(_)
ConcatBodies(v) ==
    IF v = <<>> THEN <<>> ELSE ConcatBodies(Take(v, Len(v) - 1)) \o v[Len(v)].body

RECURSIVE SumLengths(_)
SumLengths(v) ==
    IF v = <<>> THEN 0 ELSE SumLengths(Take(v, Len(v) - 1)) + v[Len(v)].content_length

\* the first n buffers of input b, concatenated in arrival order
RECURSIVE InputPrefix(_, _)
InputPrefix(b, n) ==
    IF n = 0 THEN <<>> ELSE InputPrefix(b, n - 1) \o BufferBytes(b, n)

FaultFree(b) == \A j \in 1..Len(b) : b[j].ok

\* the splitter has reached the end of a fault-free input
SplitComplete == split.fin /\ FaultFree(body)

\* C13: every part emitted is at most max bytes long, and every part but the
\* last one emitted at the end of the input is at least min bytes long
C13_PartSizes ==
    \A k \in 1..Len(uploadReqs) :
        /\ uploadReqs[k].content_length = Len(uploadReqs[k].body)
        /\ uploadReqs[k].content_length <= part_size[2]
        /\ (k < Len(uploadReqs) \/ ~split.fin)
              => uploadReqs[k].content_length >= part_size[1]

C13_Witness ==
    /\ SplitComplete
    /\ part_size = <<2, 2>>
    /\ Len(uploadReqs) = 2
    /\ uploadReqs[1].content_length = 2
    /\ uploadReqs[2].content_length = 1

\* C14: the parts are numbered 1, 2, .. in emission order; the parts emitted
\* followed by the accumulator are the input read so far; at the end of a
\* fault-free input the parts' bytes, in part_number order, are the input's
\* bytes and their lengths sum to the input's length
C14_PartsAreTheInput ==
    LET emitted == ConcatBodies(uploadReqs)
        input   == InputPrefix(body, Len(body))
    IN  /\ \A k \in 1..Len(uploadReqs) : uploadReqs[k].part_number = k
        /\ emitted \o split.acc = InputPrefix(body, split.pos - 1)
        /\ SplitComplete
              => /\ emitted = input
                 /\ SumLengths(uploadReqs) = Len(input)
                 /\ Len(uploadReqs) = split.next - 1

C14_Witness ==
    /\ SplitComplete
    /\ Len(body) = 2
    /\ body[1].len = 2
    /\ part_size = <<1, 1>>
    /\ Len(uploadReqs) = 4
    /\ ConcatBodies(uploadReqs) = <<0, 1, 2, 3>>

\* C15: when dispatch_concurrent suspends with the source not exhausted and
\* fewer tasks in flight than the limit allows, the latest poll of the source
\* answered pending: the slot a task success has freed was offered to the
\* source before the suspension.  (The claim asks moreover that this poll came
\* after the latest task success; already the part stated here fails.)
SourceNotExhausted ==
    /\ ~done
    /\ ~split.fin
    /\ split.acc # <<>> \/ split.pos <= Len(body)

C15_FreedSlotOffered ==
    (pc = "suspended" /\ SourceNotExhausted /\ HasCapacity(concurrency_limit, futures))
        => hist.lastSrc = "pending"

\* the number of times part number n occurs in the sequence v
Occurrences(v, n) == Cardinality({j \in 1..Len(v) : v[j] = n})

\* C16: in a pass that does not end in a failure, every task in flight after
\* the fill loop is polled exactly once, and no other task is polled: a
\* swap_remove makes no task be skipped or polled twice
C16_EachTaskPolledOnce ==
    /\ pc \in {"drain", "tail"}
          => /\ \A j \in 1..Len(passPolls) : Occurrences(hist.filled, passPolls[j]) = 1
             /\ \A k \in 1..Len(hist.filled) : Occurrences(passPolls, hist.filled[k]) <= 1
    /\ pc = "tail"
          => /\ Len(passPolls) = Len(hist.filled)
             /\ \A k \in 1..Len(hist.filled) : Occurrences(passPolls, hist.filled[k]) = 1

C16_Witness ==
    /\ pc = "tail"
    /\ hist.filled = <<1, 2, 3>>
    /\ passPolls = <<1, 3, 2>>
    /\ Len(futures) = 1

\* ---------------------------------------------------------------- liveness
\* The runs C17 is about: dispatch_concurrent called (after a successful
\* begin) with a limit that is absent or >= 1, an input that reports no fault
\* and tasks that do not fail.  Every Pending is followed by readiness (at
\* most MaxPend polls answer Pending, and the waker a pending poll holds
\* fires), and the flow of control, when it can step, does.  The part size is
\* 1..=1 and no buffer is empty, so that every byte of the input is a task.
LiveInit ==
    /\ Init
    /\ FaultFree(body)
    /\ \A j \in 1..Len(body) : body[j].len >= 1
    /\ part_size = <<1, 1>>
    /\ concurrency_limit # Some(0)

LiveNext ==
    \/ BeginOk
    \/ DispatchEntry
    \/ PassBegin \/ DispatchOk
    \/ FillTask \/ FillEnd \/ FillPending \/ FillFull
    \/ DrainOk \/ DrainPending \/ DrainEnd
    \/ Suspend \/ Repeat \/ Wake

LiveSpec == LiveInit /\ [][LiveNext]_vars /\ WF_vars(LiveNext)

\* C17: under these assumptions dispatch_concurrent, once called, eventually
\* returns success, and it suspends only in a pass in which a poll answered
\* Pending (so that a waker is held)
C17_DispatchTerminates ==
    /\ [](pc = "suspended" => hist.registered)
    /\ (pc = "dispatch") ~> (dc.tag = "Ok")

C17_Witness ==
    /\ dc.tag = "Ok"
    /\ pends >= 2
    /\ Len(dc.parts) >= 3
    /\ concurrency_limit = Some(2)

\* C18: within one call of multipart_upload no remote call is made twice:
\* begin is called exactly once, no part number is uploaded twice, complete
\* and abort are each called at most once
C18_NoRetry ==
    /\ Len(beginReqs) <= 1
    /\ pc # "start" => Len(beginReqs) = 1
    /\ \A j, k \in 1..Len(uploadReqs) :
          uploadReqs[j].part_number = uploadReqs[k].part_number => j = k
    /\ Len(completeReqs) <= 1
    /\ Len(abortReqs) <= 1

C18_Witness ==
    /\ pc = "done"
    /\ observed.from = "task"
    /\ Len(beginReqs) = 1
    /\ Len(uploadReqs) >= 2
    /\ Len(abortReqs) = 1
    /\ pends >= 1

\* C19: the abort call is made only when dispatch_concurrent has returned,
\* and once it is made no task is started or polled, the in-flight set is not
\* touched and the input is not pulled
C19_AbortAfterDispatch ==
    [][ /\ abortReqs' # abortReqs => (dc.tag # "none" /\ pc = "abort")
        /\ abortReqs # <<>> => (NoDispatchStep /\ futures' = futures /\ outputs' = outputs)
      ]_vars

C19_Witness ==
    /\ Len(abortReqs) = 1
    /\ dc.tag = "Err"
    /\ futures # <<>>
    /\ ~split.fin
    /\ split.pos <= Len(body)
    /\ pc = "done"

\* C20: with limit Some(0) the panic of dispatch_concurrent comes after the
\* begin call has been made and has succeeded; no upload-part, complete or
\* abort call is made, and multipart_upload returns nothing: the upload begun
\* is neither completed nor aborted
C20_ZeroLimitLeavesUpload ==
    concurrency_limit = Some(0)
        => /\ pc = "panic" => Len(beginReqs) = 1
           /\ uploadReqs = <<>>
           /\ completeReqs = <<>>
           /\ abortReqs = <<>>
           /\ BeginSucceeded => (pc \in {"dispatch", "panic"} /\ result = NoResult)

C20_Witness ==
    /\ concurrency_limit = Some(0)
    /\ pc = "panic"
    /\ upload_id = "u2"
    /\ Len(beginReqs) = 1
    /\ abortReqs = <<>>
    /\ completeReqs = <<>>

====
